---------------------------- MODULE Spec2Model ----------------------------
(***************************************************************************)
(* A model of the dcc-lsystem crate: the rewriting engine (LSystem), the   *)
(* integer turtle (BaseTurtle), the heading turtle with its save stack     *)
(* (SimpleTurtle) and the turtle interpreter that TurtleLSystemBuilder::   *)
(* finish registers (one callback per TurtleAction).                       *)
(*                                                                         *)
(* Five specifications share the variables:                                *)
(*   SpecL  the rewriting engine alone (LSystemBuilder systems)            *)
(*   SpecT  a BaseTurtle driven through its public methods                 *)
(*   SpecR  a TurtleLSystemBuilder system: step, then replay               *)
(*   SpecB  a TurtleLSystemBuilder driven through its public methods       *)
(*   SpecH  a compass Heading driven through its methods                   *)
(***************************************************************************)
EXTENDS Integers, Sequences, FiniteSets, TLC

VARIABLES
    arena,      \* LSystem: the token names, arena[h + 1] is the name of handle h
    rules,      \* LSystem: the rule table, a function from some handles to sequences
    axiom,      \* LSystem: the axiom the system was built with
    state,      \* LSystem: the current sequence of handles
    gen,        \* history: number of step() applications since the axiom
    calls,      \* history: the step() and step_by(n) calls made, in order
    bt,         \* a BaseTurtle driven directly (SpecT)
    visited,    \* history: every position bt has occupied
    op,         \* history: the last BaseTurtle method called, with its arguments
    ncalls,     \* history: number of BaseTurtle methods called
    actions,    \* TurtleLSystemBuilder.actions: handle -> TurtleAction
    global_rotate, \* TurtleLSystemBuilder.global_rotate
    istate,     \* TurtleLSystemState of the renderer
    pc,         \* "building", "failed", "aborted": the builder; "built", "replay",
                \* "done", "panicked": the replay; "none": no renderer
    pos,        \* replay: index in state of the next token to replay
    tokens,     \* TurtleLSystemBuilder.tokens: name -> handle
    bcall,      \* history: the last builder method called, its input and outcome
    nbcalls,    \* history: number of builder methods called
    saved,      \* history: what the interpreter held at each Push not yet popped
    compass,    \* a Heading value driven directly (SpecH)
    hcalls      \* history: the Heading methods called, with their results

lvars == <<arena, rules, axiom, state, gen, calls>>
tvars == <<bt, visited, op, ncalls>>
rvars == <<actions, global_rotate, istate, pc, pos>>
bvars == <<tokens, bcall, nbcalls>>
hvars == <<compass, hcalls>>
vars == <<arena, rules, axiom, state, gen, calls, bt, visited, op, ncalls,
          actions, global_rotate, istate, pc, pos, tokens, bcall, nbcalls, saved,
          compass, hcalls>>

-----------------------------------------------------------------------------
(* Bounds of the model *)

\* step() is applied at most MaxGen times in SpecL
MaxGen == 7
\* the largest n of a step_by(n) call, and of the n, m of step composition
MaxStepBy == 5
\* the number of step()/step_by() calls made on one system in SpecL
MaxLCalls == 3
\* the number of BaseTurtle methods called in SpecT
MaxTCalls == 4
\* the longest axiom of the generated TurtleLSystemBuilder systems
MaxReplayLen == 3
\* step() is applied at most MaxReplayGen times before a replay in SpecR
MaxReplayGen == 1

-----------------------------------------------------------------------------
(* Generic helpers *)

RECURSIVE Concat(_)
\* the strings of a sequence joined, in order, with no separator
Concat(ss) == IF ss = <<>> THEN "" ELSE Head(ss) \o Concat(Tail(ss))

\* all sequences over S of length lo..hi
SeqsOf(S, lo, hi) == UNION {[1..n -> S] : n \in lo..hi}

-----------------------------------------------------------------------------
(* The rewriting engine *)

\* the handles of an arena of n tokens: 0 .. n-1
Handles(names) == 0..(Len(names) - 1)

\* a slip: a handle with no rule is dropped
ExpandDropping(rs, h) == IF h \in DOMAIN rs THEN rs[h] ELSE <<>>

\* the replacement of one handle: its rule, or the handle itself
Expand(rs, h) == IF h \in DOMAIN rs THEN rs[h] ELSE <<h>>

RECURSIVE StepSeqReversed(_, _)
\* a slip: the replacements are concatenated last handle first
StepSeqReversed(rs, s) ==
    IF s = <<>> THEN <<>> ELSE StepSeqReversed(rs, Tail(s)) \o Expand(rs, Head(s))

RECURSIVE StepSeq(_, _)
\* LSystem::step on a sequence: every handle replaced, results concatenated in order
StepSeq(rs, s) ==
    IF s = <<>> THEN <<>> ELSE Expand(rs, Head(s)) \o StepSeq(rs, Tail(s))

RECURSIVE StepByAtLeastOnce(_, _, _)
\* a slip: the loop tests its counter after the body, so step_by(0) steps once
StepByAtLeastOnce(rs, s, n) ==
    IF n <= 1 THEN StepSeq(rs, s) ELSE StepByAtLeastOnce(rs, StepSeq(rs, s), n - 1)

RECURSIVE StepBy(_, _, _)
\* LSystem::step_by(n): step() applied n times
StepBy(rs, s, n) == IF n = 0 THEN s ELSE StepBy(rs, StepSeq(rs, s), n - 1)

\* LSystem::render: the names of the handles, joined
Render(names, s) == Concat([i \in 1..Len(s) |-> names[s[i] + 1]])


-----------------------------------------------------------------------------
(* The systems the rewriting engine is run on *)

\* the crate's doc-test: tokens A (handle 0) and B (handle 1)
AlgaeArena == <<"A", "B">>

\* the crate's doc-test: builder.axiom(vec![a])
AlgaeAxiom == <<0>>

\* a slip in the second rule: B -> B
AlgaeRulesSlip == (0 :> <<0, 1>>) @@ (1 :> <<1>>)

\* the crate's doc-test: A -> AB, B -> A
AlgaeRules == (0 :> <<0, 1>>) @@ (1 :> <<0>>)

\* the system the doc-test builds
Algae == [arena |-> AlgaeArena, axiom |-> AlgaeAxiom, rules |-> AlgaeRules]

\* the arena of the generated systems: A, B and C
GenArena == <<"A", "B", "C">>

\* the rule tables of the generated systems; <<>> is the empty table
GenRuleTables ==
    { <<>>,
      AlgaeRules,
      (1 :> <<1, 2, 0>>),
      (0 :> <<1>>) @@ (1 :> <<0>>) }

\* the axioms of the generated systems
GenAxioms == { <<0>>, <<1>>, <<2>>, <<0, 1>>, <<2, 2>>, <<1, 2, 0>> }

\* the systems LSystemBuilder builds from them
GenSystems ==
    { [arena |-> GenArena, axiom |-> ax, rules |-> rs] :
        ax \in GenAxioms, rs \in GenRuleTables }

LSystems == {Algae} \cup GenSystems

-----------------------------------------------------------------------------
(* BaseTurtle *)

Min(a, b) == IF a <= b THEN a ELSE b
Max(a, b) == IF a >= b THEN a ELSE b
Abs(a) == IF a < 0 THEN -a ELSE a

\* i32::MAX
I32Max == 2147483647

\* the cast `as u32` of an i32: the value itself when it is not negative; a negative
\* value casts to 2^32 + v, which lies above i32::MAX, the largest integer TLC
\* holds, so i32::MAX stands for it
AsU32(v) == IF v >= 0 THEN v ELSE I32Max

\* BaseTurtle::new
BaseTurtle_new ==
    [x |-> 0, y |-> 0, lines |-> <<>>,
     max_x |-> 0, max_y |-> 0, min_x |-> 0, min_y |-> 0, pen_down |-> TRUE]

\* BaseTurtle::update_bounds
update_bounds(t) ==
    [t EXCEPT !.min_x = Min(t.min_x, t.x), !.min_y = Min(t.min_y, t.y),
              !.max_x = Max(t.max_x, t.x), !.max_y = Max(t.max_y, t.y)]

\* a slip: the bounds are not updated
set_positionNoBounds(t, nx, ny) == [t EXCEPT !.x = nx, !.y = ny]

\* BaseTurtle::set_position
set_position(t, nx, ny) == update_bounds([t EXCEPT !.x = nx, !.y = ny])

\* a slip: the line is recorded whether or not the pen is down
delta_moveIgnoringPen(t, dx, dy) ==
    LET x2 == t.x + dx
        y2 == t.y + dy
    IN  update_bounds([t EXCEPT !.lines = Append(t.lines, <<t.x, t.y, x2, y2>>),
                                !.x = x2, !.y = y2])

\* BaseTurtle::delta_move
delta_move(t, dx, dy) ==
    LET x2 == t.x + dx
        y2 == t.y + dy
        drawn == IF t.pen_down
                 THEN [t EXCEPT !.lines = Append(t.lines, <<t.x, t.y, x2, y2>>)]
                 ELSE t
    IN  update_bounds([drawn EXCEPT !.x = x2, !.y = y2])

\* a slip: min_x and min_y are added as they are, without abs()
boundsNoAbs(t) ==
    << AsU32(t.max_x + t.min_x), AsU32(t.max_y + t.min_y), t.min_x, t.min_y >>

\* BaseTurtle::bounds: <<total_width, total_height, min_x, min_y>>
bounds(t) ==
    << AsU32(t.max_x + Abs(t.min_x)), AsU32(t.max_y + Abs(t.min_y)), t.min_x, t.min_y >>

\* BaseTurtle::pen_down
pen_down(t) == [t EXCEPT !.pen_down = TRUE]

\* BaseTurtle::pen_up
pen_up(t) == [t EXCEPT !.pen_down = FALSE]

-----------------------------------------------------------------------------
(* f32 trigonometry *)

\* A heading is an f32 angle in radians.  The model holds the whole number of
\* degrees d it was converted from and stands for the f32 (d as f32).to_radians();
\* FRAC_PI_2 is the same f32 as 90f32.to_radians().
\* CosTable[d + 361] and SinTable[d + 361] are the f32 values cos(h) and sin(h) of
\* that heading h times 2^24, truncated, for d in TrigLo..450.
TrigLo == -360
TrigScale == 16777216

CosTable ==
    << 16777216, 16774661, 16766996, 16754223, 16736348, 16713373, 16685308, 16652161, 16613941, 16570661,
       16522332, 16468971, 16410593, 16347217, 16278862, 16205545, 16127294, 16044131, 15956081, 15863170,
       15765425, 15662880, 15555564, 15443509, 15326751, 15205320, 15079261, 14948609, 14813403, 14673685,
       14529494, 14380880, 14227886, 14070558, 13908940, 13743089, 13573052, 13398881, 13220628, 13038343,
       12852091, 12661925, 12467902, 12270081, 12068516, 11863281, 11654433, 11442034, 11226151, 11006841,
       10784185, 10558244, 10329086, 10096783, 9861397, 9623014, 9381700, 9137528, 8890573, 8640902,
       8388606, 8133756, 7876427, 7616692, 7354645, 7090356, 6823909, 6555382, 6284852, 6012414,
       5738145, 5462128, 5184447, 4905179, 4624425, 4342262, 4058776, 3774055, 3488175, 3201241,
       2913332, 2624536, 2334940, 2044624, 1753694, 1462230, 1170321, 878054, 585513, 292801,
       0, -292800, -585520, -878054, -1170320, -1462230, -1753694, -2044632, -2334939, -2624535,
       -2913332, -3201241, -3488183, -3774054, -4058776, -4342262, -4624425, -4905186, -5184446, -5462127,
       -5738144, -6012413, -6284859, -6555382, -6823908, -7090356, -7354644, -7616699, -7876427, -8133755,
       -8388606, -8640909, -8890572, -9137528, -9381700, -9623014, -9861403, -10096783, -10329086, -10558243,
       -10784185, -11006844, -11226150, -11442034, -11654433, -11863284, -12068519, -12270080, -12467901, -12661925,
       -12852094, -13038345, -13220628, -13398880, -13573054, -13743091, -13908942, -14070558, -14227886, -14380882,
       -14529495, -14673683, -14813403, -14948609, -15079263, -15205322, -15326750, -15443509, -15555563, -15662881,
       -15765426, -15863170, -15956081, -16044131, -16127295, -16205546, -16278861, -16347217, -16410593, -16468971,
       -16522332, -16570661, -16613941, -16652161, -16685309, -16713374, -16736348, -16754223, -16766996, -16774661,
       -16777216, -16774661, -16766996, -16754223, -16736348, -16713373, -16685309, -16652161, -16613941, -16570661,
       -16522332, -16468971, -16410594, -16347217, -16278861, -16205546, -16127295, -16044131, -15956080, -15863170,
       -15765426, -15662881, -15555563, -15443509, -15326750, -15205321, -15079262, -14948608, -14813402, -14673685,
       -14529495, -14380881, -14227885, -14070557, -13908941, -13743091, -13573054, -13398880, -13220627, -13038344,
       -12852093, -12661927, -12467901, -12270080, -12068518, -11863283, -11654432, -11442033, -11226150, -11006843,
       -10784187, -10558243, -10329085, -10096782, -9861399, -9623016, -9381699, -9137527, -8890571, -8640904,
       -8388609, -8133754, -7876426, -7616695, -7354647, -7090359, -6823907, -6555381, -6284856, -6012416,
       -5738145, -5462126, -5184444, -4905184, -4624427, -4342263, -4058775, -3774051, -3488178, -3201244,
       -2913333, -2624534, -2334936, -2044627, -1753697, -1462231, -1170319, -878051, -585515, -292801,
       0, 292802, 585516, 878051, 1170320, 1462231, 1753695, 2044628, 2334937, 2624535,
       2913333, 3201244, 3488178, 3774052, 4058776, 4342263, 4624428, 4905184, 5184444, 5462127,
       5738146, 6012417, 6284856, 6555381, 6823908, 7090357, 7354647, 7616697, 7876426, 8133755,
       8388607, 8640905, 8890570, 9137527, 9381700, 9623016, 9861401, 10096781, 10329086, 10558245,
       10784187, 11006844, 11226148, 11442034, 11654434, 11863283, 12068519, 12270079, 12467901, 12661926,
       12852093, 13038345, 13220627, 13398881, 13573053, 13743091, 13908943, 14070557, 14227886, 14380881,
       14529495, 14673684, 14813402, 14948609, 15079262, 15205321, 15326749, 15443509, 15555564, 15662880,
       15765426, 15863169, 15956081, 16044132, 16127295, 16205546, 16278861, 16347217, 16410594, 16468971,
       16522332, 16570661, 16613941, 16652161, 16685309, 16713374, 16736348, 16754223, 16766996, 16774661,
       16777216, 16774661, 16766996, 16754223, 16736348, 16713374, 16685309, 16652161, 16613941, 16570661,
       16522332, 16468971, 16410594, 16347217, 16278861, 16205546, 16127295, 16044132, 15956081, 15863169,
       15765426, 15662880, 15555564, 15443509, 15326749, 15205321, 15079262, 14948609, 14813402, 14673684,
       14529495, 14380881, 14227886, 14070557, 13908943, 13743091, 13573053, 13398881, 13220627, 13038345,
       12852093, 12661926, 12467901, 12270079, 12068519, 11863283, 11654434, 11442034, 11226148, 11006844,
       10784187, 10558245, 10329086, 10096781, 9861401, 9623016, 9381700, 9137527, 8890570, 8640905,
       8388607, 8133755, 7876426, 7616697, 7354647, 7090357, 6823908, 6555381, 6284856, 6012417,
       5738146, 5462127, 5184444, 4905184, 4624428, 4342263, 4058776, 3774052, 3488178, 3201244,
       2913333, 2624535, 2334937, 2044628, 1753695, 1462231, 1170320, 878051, 585516, 292802,
       0, -292801, -585515, -878051, -1170319, -1462231, -1753697, -2044627, -2334936, -2624534,
       -2913333, -3201244, -3488178, -3774051, -4058775, -4342263, -4624427, -4905184, -5184444, -5462126,
       -5738145, -6012416, -6284856, -6555381, -6823907, -7090359, -7354647, -7616695, -7876426, -8133754,
       -8388609, -8640904, -8890571, -9137527, -9381699, -9623016, -9861399, -10096782, -10329085, -10558243,
       -10784187, -11006843, -11226150, -11442033, -11654432, -11863283, -12068518, -12270080, -12467901, -12661927,
       -12852093, -13038344, -13220627, -13398880, -13573054, -13743091, -13908941, -14070557, -14227885, -14380881,
       -14529495, -14673685, -14813402, -14948608, -15079262, -15205321, -15326750, -15443509, -15555563, -15662881,
       -15765426, -15863170, -15956080, -16044131, -16127295, -16205546, -16278861, -16347217, -16410594, -16468971,
       -16522332, -16570661, -16613941, -16652161, -16685309, -16713373, -16736348, -16754223, -16766996, -16774661,
       -16777216, -16774661, -16766996, -16754223, -16736348, -16713374, -16685309, -16652161, -16613941, -16570661,
       -16522332, -16468971, -16410593, -16347217, -16278861, -16205546, -16127295, -16044131, -15956081, -15863170,
       -15765426, -15662881, -15555563, -15443509, -15326750, -15205322, -15079263, -14948609, -14813403, -14673683,
       -14529495, -14380882, -14227886, -14070558, -13908942, -13743091, -13573054, -13398880, -13220628, -13038345,
       -12852094, -12661925, -12467901, -12270080, -12068519, -11863284, -11654433, -11442034, -11226150, -11006844,
       -10784185, -10558243, -10329086, -10096783, -9861403, -9623014, -9381700, -9137528, -8890572, -8640909,
       -8388606, -8133755, -7876427, -7616699, -7354644, -7090356, -6823908, -6555382, -6284859, -6012413,
       -5738144, -5462127, -5184446, -4905186, -4624425, -4342262, -4058776, -3774054, -3488183, -3201241,
       -2913332, -2624535, -2334939, -2044632, -1753694, -1462230, -1170320, -878054, -585520, -292800,
       0, 292801, 585513, 878054, 1170321, 1462230, 1753694, 2044624, 2334940, 2624536,
       2913332, 3201241, 3488175, 3774055, 4058776, 4342262, 4624425, 4905179, 5184447, 5462128,
       5738145, 6012414, 6284852, 6555382, 6823909, 7090356, 7354645, 7616692, 7876427, 8133756,
       8388606, 8640902, 8890573, 9137528, 9381700, 9623014, 9861397, 10096783, 10329086, 10558244,
       10784185, 11006841, 11226151, 11442034, 11654433, 11863281, 12068516, 12270081, 12467902, 12661925,
       12852091, 13038343, 13220628, 13398881, 13573052, 13743089, 13908940, 14070558, 14227886, 14380880,
       14529494, 14673685, 14813403, 14948609, 15079261, 15205320, 15326751, 15443509, 15555564, 15662880,
       15765425, 15863170, 15956081, 16044131, 16127294, 16205545, 16278862, 16347217, 16410593, 16468971,
       16522332, 16570661, 16613941, 16652161, 16685308, 16713373, 16736348, 16754223, 16766996, 16774661,
       16777216, 16774661, 16766996, 16754224, 16736348, 16713373, 16685309, 16652161, 16613942, 16570661,
       16522332, 16468971, 16410594, 16347218, 16278862, 16205546, 16127295, 16044132, 15956082, 15863171,
       15765425, 15662880, 15555564, 15443510, 15326748, 15205321, 15079262, 14948610, 14813404, 14673682,
       14529495, 14380881, 14227887, 14070559, 13908941, 13743090, 13573053, 13398882, 13220629, 13038344,
       12852093, 12661926, 12467903, 12270082, 12068518, 11863283, 11654435, 11442036, 11226152, 11006843,
       10784187, 10558245, 10329088, 10096778, 9861399, 9623016, 9381702, 9137530, 8890568, 8640904,
       8388609, 8133757, 7876429, 7616694, 7354646, 7090358, 6823911, 6555384, 6284853, 6012416,
       5738147, 5462130, 5184449, 4905181, 4624427, 4342264, 4058779, 3774057, 3488177, 3201243,
       2913334, 2624538, 2334934, 2044627, 1753697, 1462232, 1170323, 878049, 585515, 292803,
       2 >>

SinTable ==
    << -2, 292806, 585518, 878051, 1170317, 1462235, 1753699, 2044629, 2334937, 2624533,
       2913337, 3201246, 3488180, 3774052, 4058773, 4342267, 4624430, 4905184, 5184444, 5462125,
       5738149, 6012418, 6284856, 6555379, 6823906, 7090361, 7354649, 7616697, 7876424, 8133753,
       8388611, 8640906, 8890570, 9137525, 9381704, 9623018, 9861401, 10096780, 10329084, 10558248,
       10784189, 11006845, 11226148, 11442032, 11654436, 11863285, 12068520, 12270078, 12467900, 12661928,
       12852094, 13038346, 13220626, 13398879, 13573055, 13743092, 13908943, 14070556, 14227884, 14380883,
       14529496, 14673684, 14813402, 14948611, 15079263, 15205322, 15326749, 15443508, 15555565, 15662881,
       15765426, 15863169, 15956080, 16044133, 16127296, 16205546, 16278861, 16347216, 16410594, 16468972,
       16522332, 16570660, 16613941, 16652162, 16685309, 16713374, 16736347, 16754223, 16766996, 16774661,
       16777216, 16774661, 16766996, 16754223, 16736347, 16713374, 16685309, 16652161, 16613941, 16570660,
       16522333, 16468972, 16410593, 16347217, 16278861, 16205547, 16127296, 16044130, 15956080, 15863169,
       15765427, 15662882, 15555563, 15443508, 15326749, 15205322, 15079263, 14948608, 14813402, 14673684,
       14529496, 14380879, 14227885, 14070557, 13908943, 13743092, 13573050, 13398879, 13220626, 13038346,
       12852095, 12661926, 12467900, 12270079, 12068520, 11863282, 11654434, 11442032, 11226149, 11006845,
       10784186, 10558245, 10329084, 10096781, 9861398, 9623015, 9381701, 9137526, 8890570, 8640903,
       8388607, 8133757, 7876425, 7616697, 7354646, 7090358, 6823906, 6555380, 6284856, 6012415,
       5738146, 5462125, 5184444, 4905184, 4624426, 4342263, 4058774, 3774052, 3488181, 3201243,
       2913333, 2624533, 2334937, 2044626, 1753696, 1462231, 1170318, 878052, 585514, 292802,
       1, -292803, -585515, -878053, -1170319, -1462233, -1753697, -2044627, -2334938, -2624534,
       -2913335, -3201244, -3488178, -3774053, -4058775, -4342264, -4624427, -4905185, -5184445, -5462126,
       -5738147, -6012416, -6284857, -6555381, -6823907, -7090359, -7354647, -7616698, -7876426, -8133754,
       -8388609, -8640904, -8890571, -9137527, -9381702, -9623016, -9861399, -10096782, -10329085, -10558246,
       -10784187, -11006843, -11226149, -11442033, -11654435, -11863283, -12068521, -12270079, -12467901, -12661926,
       -12852093, -13038347, -13220627, -13398880, -13573053, -13743090, -13908943, -14070557, -14227885, -14380881,
       -14529495, -14673684, -14813402, -14948610, -15079262, -15205321, -15326750, -15443509, -15555564, -15662881,
       -15765426, -15863170, -15956081, -16044131, -16127295, -16205546, -16278861, -16347217, -16410594, -16468971,
       -16522332, -16570661, -16613941, -16652161, -16685309, -16713374, -16736348, -16754223, -16766996, -16774661,
       -16777216, -16774661, -16766996, -16754223, -16736348, -16713374, -16685309, -16652161, -16613941, -16570661,
       -16522332, -16468971, -16410594, -16347217, -16278861, -16205546, -16127295, -16044131, -15956081, -15863169,
       -15765426, -15662880, -15555564, -15443508, -15326750, -15205322, -15079262, -14948609, -14813402, -14673684,
       -14529496, -14380881, -14227886, -14070557, -13908942, -13743091, -13573053, -13398881, -13220626, -13038345,
       -12852093, -12661925, -12467902, -12270079, -12068519, -11863283, -11654434, -11442034, -11226149, -11006844,
       -10784186, -10558244, -10329086, -10096780, -9861400, -9623016, -9381700, -9137527, -8890570, -8640905,
       -8388608, -8133755, -7876426, -7616696, -7354647, -7090358, -6823908, -6555380, -6284855, -6012416,
       -5738145, -5462127, -5184445, -4905183, -4624427, -4342263, -4058776, -3774052, -3488179, -3201243,
       -2913333, -2624535, -2334937, -2044628, -1753696, -1462230, -1170319, -878051, -585516, -292802,
       0, 292802, 585516, 878051, 1170319, 1462230, 1753696, 2044628, 2334937, 2624535,
       2913333, 3201243, 3488179, 3774052, 4058776, 4342263, 4624427, 4905183, 5184445, 5462127,
       5738145, 6012416, 6284855, 6555380, 6823908, 7090358, 7354647, 7616696, 7876426, 8133755,
       8388608, 8640905, 8890570, 9137527, 9381700, 9623016, 9861400, 10096780, 10329086, 10558244,
       10784186, 11006844, 11226149, 11442034, 11654434, 11863283, 12068519, 12270079, 12467902, 12661925,
       12852093, 13038345, 13220626, 13398881, 13573053, 13743091, 13908942, 14070557, 14227886, 14380881,
       14529496, 14673684, 14813402, 14948609, 15079262, 15205322, 15326750, 15443508, 15555564, 15662880,
       15765426, 15863169, 15956081, 16044131, 16127295, 16205546, 16278861, 16347217, 16410594, 16468971,
       16522332, 16570661, 16613941, 16652161, 16685309, 16713374, 16736348, 16754223, 16766996, 16774661,
       16777216, 16774661, 16766996, 16754223, 16736348, 16713374, 16685309, 16652161, 16613941, 16570661,
       16522332, 16468971, 16410594, 16347217, 16278861, 16205546, 16127295, 16044131, 15956081, 15863170,
       15765426, 15662881, 15555564, 15443509, 15326750, 15205321, 15079262, 14948610, 14813402, 14673684,
       14529495, 14380881, 14227885, 14070557, 13908943, 13743090, 13573053, 13398880, 13220627, 13038347,
       12852093, 12661926, 12467901, 12270079, 12068521, 11863283, 11654435, 11442033, 11226149, 11006843,
       10784187, 10558246, 10329085, 10096782, 9861399, 9623016, 9381702, 9137527, 8890571, 8640904,
       8388609, 8133754, 7876426, 7616698, 7354647, 7090359, 6823907, 6555381, 6284857, 6012416,
       5738147, 5462126, 5184445, 4905185, 4624427, 4342264, 4058775, 3774053, 3488178, 3201244,
       2913335, 2624534, 2334938, 2044627, 1753697, 1462233, 1170319, 878053, 585515, 292803,
       -1, -292802, -585514, -878052, -1170318, -1462231, -1753696, -2044626, -2334937, -2624533,
       -2913333, -3201243, -3488181, -3774052, -4058774, -4342263, -4624426, -4905184, -5184444, -5462125,
       -5738146, -6012415, -6284856, -6555380, -6823906, -7090358, -7354646, -7616697, -7876425, -8133757,
       -8388607, -8640903, -8890570, -9137526, -9381701, -9623015, -9861398, -10096781, -10329084, -10558245,
       -10784186, -11006845, -11226149, -11442032, -11654434, -11863282, -12068520, -12270079, -12467900, -12661926,
       -12852095, -13038346, -13220626, -13398879, -13573050, -13743092, -13908943, -14070557, -14227885, -14380879,
       -14529496, -14673684, -14813402, -14948608, -15079263, -15205322, -15326749, -15443508, -15555563, -15662882,
       -15765427, -15863169, -15956080, -16044130, -16127296, -16205547, -16278861, -16347217, -16410593, -16468972,
       -16522333, -16570660, -16613941, -16652161, -16685309, -16713374, -16736347, -16754223, -16766996, -16774661,
       -16777216, -16774661, -16766996, -16754223, -16736347, -16713374, -16685309, -16652162, -16613941, -16570660,
       -16522332, -16468972, -16410594, -16347216, -16278861, -16205546, -16127296, -16044133, -15956080, -15863169,
       -15765426, -15662881, -15555565, -15443508, -15326749, -15205322, -15079263, -14948611, -14813402, -14673684,
       -14529496, -14380883, -14227884, -14070556, -13908943, -13743092, -13573055, -13398879, -13220626, -13038346,
       -12852094, -12661928, -12467900, -12270078, -12068520, -11863285, -11654436, -11442032, -11226148, -11006845,
       -10784189, -10558248, -10329084, -10096780, -9861401, -9623018, -9381704, -9137525, -8890570, -8640906,
       -8388611, -8133753, -7876424, -7616697, -7354649, -7090361, -6823906, -6555379, -6284856, -6012418,
       -5738149, -5462125, -5184444, -4905184, -4624430, -4342267, -4058773, -3774052, -3488180, -3201246,
       -2913337, -2624533, -2334937, -2044629, -1753699, -1462235, -1170317, -878051, -585518, -292806,
       2, 292804, 585516, 878049, 1170315, 1462233, 1753697, 2044627, 2334934, 2624530,
       2913335, 3201244, 3488178, 3774049, 4058771, 4342265, 4624428, 4905182, 5184442, 5462123,
       5738147, 6012416, 6284854, 6555377, 6823911, 7090359, 7354647, 7616695, 7876422, 8133758,
       8388609, 8640905, 8890568, 9137524, 9381702, 9623016, 9861400, 10096779, 10329082, 10558246,
       10784187, 11006843, 11226147, 11442031, 11654435, 11863283, 12068518, 12270077, 12467898, 12661927,
       12852093, 13038345, 13220625, 13398882, 13573054, 13743091, 13908941, 14070555, 14227888, 14380882,
       14529495, 14673683, 14813401, 14948610, 15079262, 15205321, 15326748, 15443507, 15555565, 15662881,
       15765426, 15863168, 15956079, 16044132, 16127295, 16205546, 16278860, 16347216, 16410594, 16468971,
       16522332, 16570660, 16613942, 16652161, 16685309, 16713373, 16736347, 16754224, 16766996, 16774661,
       16777216 >>

\* truncation toward zero of n / d, the cast `as i32` of a float
TruncDiv(n, d) == IF n >= 0 THEN n \div d ELSE -((-n) \div d)

\* (heading.cos() * distance as f32) as i32
CosTimes(deg, distance) == TruncDiv(CosTable[deg - TrigLo + 1] * distance, TrigScale)

\* (heading.sin() * distance as f32) as i32
SinTimes(deg, distance) == TruncDiv(SinTable[deg - TrigLo + 1] * distance, TrigScale)

-----------------------------------------------------------------------------
(* SimpleTurtle *)

\* SimpleTurtle::new; the heading FRAC_PI_2 is 90 degrees
SimpleTurtle_new ==
    [turtle |-> BaseTurtle_new, heading |-> 90, stack |-> <<>>, pen_down |-> TRUE]

\* SimpleTurtle::set_heading
set_heading(t, heading) == [t EXCEPT !.heading = heading]

\* Stack::push for SimpleTurtle
push(t) == [t EXCEPT !.stack = Append(t.stack, <<t.turtle.x, t.turtle.y, t.heading>>)]

\* whether Stack::pop panics: the expect on an empty stack
pop_panics(t) == t.stack = <<>>

\* a slip: the turtle walks back to the saved position with its pen down
popDrawing(t) ==
    LET top == t.stack[Len(t.stack)]
    IN  [t EXCEPT !.stack = SubSeq(t.stack, 1, Len(t.stack) - 1),
                  !.turtle = delta_move(t.turtle, top[1] - t.turtle.x, top[2] - t.turtle.y),
                  !.heading = top[3]]

\* a slip: the oldest saved entry is restored, not the newest
popOldest(t) ==
    LET top == t.stack[1]
    IN  [t EXCEPT !.stack = Tail(t.stack),
                  !.turtle = set_position(t.turtle, top[1], top[2]),
                  !.heading = top[3]]

\* Stack::pop for SimpleTurtle, on a non-empty stack
pop(t) ==
    LET top == t.stack[Len(t.stack)]
    IN  [t EXCEPT !.stack = SubSeq(t.stack, 1, Len(t.stack) - 1),
                  !.turtle = set_position(t.turtle, top[1], top[2]),
                  !.heading = top[3]]

\* a slip: sin() gives dx and cos() gives dy
forwardSwapped(t, distance) ==
    LET dx == SinTimes(t.heading, distance)
        dy == CosTimes(t.heading, distance)
    IN  IF t.pen_down
        THEN [t EXCEPT !.turtle = delta_move(t.turtle, dx, dy)]
        ELSE t

\* MovingTurtle::forward for SimpleTurtle
forward(t, distance) ==
    LET dx == CosTimes(t.heading, distance)
        dy == SinTimes(t.heading, distance)
    IN  IF t.pen_down
        THEN [t EXCEPT !.turtle = delta_move(t.turtle, dx, dy)]
        ELSE t

-----------------------------------------------------------------------------
(* The turtle interpreter *)

\* TurtleLSystemState::new
TurtleLSystemState_new ==
    [angle |-> 0, angle_stack |-> <<>>, turtle |-> SimpleTurtle_new]

\* the operator % of i32: the remainder has the sign of the dividend
RemI32(a, b) == IF a >= 0 THEN a % b ELSE -((-a) % b)

\* Distribution::sample: the values a call may return; none when gen_range panics
Sample(dist) ==
    IF dist.kind = "Uniform" THEN dist.lower .. (dist.upper - 1) ELSE {dist.value}

\* a slip: only the angle is pushed, the turtle's own stack is left alone
OnPushAngleOnly(s) == [s EXCEPT !.angle_stack = Append(s.angle_stack, s.angle)]

\* the callback registered for TurtleAction::Push
OnPush(s) ==
    [s EXCEPT !.turtle = push(s.turtle),
              !.angle_stack = Append(s.angle_stack, s.angle)]

\* whether the callback registered for TurtleAction::Pop panics
OnPopPanics(s) == pop_panics(s.turtle) \/ s.angle_stack = <<>>

\* a slip: the angle is read back but left on the angle stack
OnPopKeepingAngle(s) ==
    [s EXCEPT !.turtle = pop(s.turtle),
              !.angle = s.angle_stack[Len(s.angle_stack)]]

\* the callback registered for TurtleAction::Pop, when it does not panic
OnPop(s) ==
    [s EXCEPT !.turtle = pop(s.turtle),
              !.angle = s.angle_stack[Len(s.angle_stack)],
              !.angle_stack = SubSeq(s.angle_stack, 1, Len(s.angle_stack) - 1)]

\* the callback registered for TurtleAction::Forward(distance)
OnForward(s, current_global_rotate, distance) ==
    [s EXCEPT !.turtle =
        forward(set_heading(s.turtle, current_global_rotate + s.angle), distance)]

\* a slip: the least non-negative residue instead of the remainder of i32
OnRotateFloorMod(s, angle) == [s EXCEPT !.angle = (s.angle + angle) % 360]

\* the callback registered for TurtleAction::Rotate(angle)
OnRotate(s, angle) == [s EXCEPT !.angle = RemI32(s.angle + angle, 360)]

-----------------------------------------------------------------------------
(* The systems the turtle interpreter is run on *)

NothingAction == [kind |-> "Nothing"]
Rotate(a) == [kind |-> "Rotate", angle |-> a]
Forward(d) == [kind |-> "Forward", distance |-> d]
StochasticRotate(dist) == [kind |-> "StochasticRotate", dist |-> dist]
StochasticForward(dist) == [kind |-> "StochasticForward", dist |-> dist]
PushAction == [kind |-> "Push"]
PopAction == [kind |-> "Pop"]

\* Uniform::new
Uniform(lower, upper) == [kind |-> "Uniform", lower |-> lower, upper |-> upper]

\* examples/koch_curve.rs: tokens F (0), + (1), - (2)
KochArena == <<"F", "+", "-">>

\* examples/koch_curve.rs: F = Forward(30), + = Rotate(90), - = Rotate(-90)
KochActions == (0 :> Forward(30)) @@ (1 :> Rotate(90)) @@ (2 :> Rotate(-90))

\* examples/koch_curve.rs: F => F + F - F - F + F
KochRules == (0 :> <<0, 1, 0, 2, 0, 2, 0, 1, 0>>)

Koch ==
    [arena |-> KochArena, actions |-> KochActions, axiom |-> <<0>>,
     rules |-> KochRules, global_rotate |-> 0]

\* examples/dragon_curve.rs: tokens X (0), Y (1), F (2), + (3), - (4)
DragonArena == <<"X", "Y", "F", "+", "-">>

DragonActions ==
    (0 :> NothingAction) @@ (1 :> NothingAction) @@ (2 :> Forward(30)) @@
    (3 :> Rotate(-90)) @@ (4 :> Rotate(90))

\* examples/dragon_curve.rs: X => X + Y F +,  Y => - F X - Y
DragonRules == (0 :> <<0, 3, 1, 2, 3>>) @@ (1 :> <<4, 2, 0, 4, 1>>)

Dragon ==
    [arena |-> DragonArena, actions |-> DragonActions, axiom |-> <<2, 0>>,
     rules |-> DragonRules, global_rotate |-> 0]

\* the generated systems: one token per built-in action
TurtleArena == <<"N", "F", "+", "-", "[", "]", "r", "f">>

TurtleActions ==
    (0 :> NothingAction) @@ (1 :> Forward(30)) @@ (2 :> Rotate(90)) @@
    (3 :> Rotate(-90)) @@ (4 :> PushAction) @@ (5 :> PopAction) @@
    (6 :> StochasticRotate(Uniform(44, 46))) @@
    (7 :> StochasticForward(Uniform(1, 3)))

\* every non-empty axiom over TurtleArena, no rule, no global rotation
GenTurtleSystems ==
    { [arena |-> TurtleArena, actions |-> TurtleActions, axiom |-> ax,
       rules |-> <<>>, global_rotate |-> 0] :
        ax \in SeqsOf(Handles(TurtleArena), 1, MaxReplayLen) }

\* a branching system: X => F [ + X F ] [ - [ F ] X ], drawn with builder.rotate(90)
BranchArena == <<"X", "F", "[", "]", "+", "-">>

BranchActions ==
    (0 :> NothingAction) @@ (1 :> Forward(30)) @@ (2 :> PushAction) @@
    (3 :> PopAction) @@ (4 :> Rotate(45)) @@ (5 :> Rotate(-45))

BranchRules == (0 :> <<1, 2, 4, 0, 1, 3, 2, 5, 2, 1, 3, 0, 3>>)

Branch ==
    [arena |-> BranchArena, actions |-> BranchActions, axiom |-> <<0>>,
     rules |-> BranchRules, global_rotate |-> 90]

\* a system whose distributions are Uniform values with lower >= upper
EmptyRangeArena == <<"F", "r", "f">>

EmptyRangeActions ==
    (0 :> Forward(30)) @@ (1 :> StochasticRotate(Uniform(50, 40))) @@
    (2 :> StochasticForward(Uniform(2, 2)))

EmptyRange ==
    [arena |-> EmptyRangeArena, actions |-> EmptyRangeActions, axiom |-> <<0, 1>>,
     rules |-> (1 :> <<2, 0>>), global_rotate |-> 0]

\* a system that turns past a full circle in both directions:
\* L = Rotate(200), R = Rotate(-200), axiom L L F R R R R F
SpinArena == <<"F", "L", "R">>

SpinActions == (0 :> Forward(10)) @@ (1 :> Rotate(200)) @@ (2 :> Rotate(-200))

Spin ==
    [arena |-> SpinArena, actions |-> SpinActions,
     axiom |-> <<1, 1, 0, 2, 2, 2, 2, 0>>, rules |-> <<>>, global_rotate |-> 0]

\* a system with a branch inside a branch, each saved at a different place:
\* axiom F [ + F [ - F ] F ] F
NestArena == <<"F", "[", "]", "+", "-">>

NestActions ==
    (0 :> Forward(10)) @@ (1 :> PushAction) @@ (2 :> PopAction) @@
    (3 :> Rotate(45)) @@ (4 :> Rotate(-45))

Nest ==
    [arena |-> NestArena, actions |-> NestActions,
     axiom |-> <<0, 1, 3, 0, 1, 4, 0, 2, 0, 2, 0>>, rules |-> <<>>, global_rotate |-> 0]

TurtleSystems == {Koch, Dragon, Branch, EmptyRange, Spin, Nest} \cup GenTurtleSystems

-----------------------------------------------------------------------------
(* Initial states *)

\* the tokens map of a builder whose token calls registered names, in order
TokensOf(names) ==
    [n \in {names[i] : i \in 1..Len(names)} |->
        (CHOOSE i \in 1..Len(names) : names[i] = n) - 1]

\* no BaseTurtle call yet
NoOp == [name |-> "new", a |-> 0, b |-> 0]

InitEngine(sys) ==
    /\ arena = sys.arena
    /\ rules = sys.rules
    /\ axiom = sys.axiom
    /\ state = sys.axiom
    /\ gen = 0
    /\ calls = <<>>

InitBase ==
    /\ bt = BaseTurtle_new
    /\ visited = {<<0, 0>>}
    /\ op = NoOp
    /\ ncalls = 0

\* no builder call is recorded, no Push is open
NoCall == [name |-> "new", input |-> <<>>, outcome |-> "ok"]

\* no builder call, no open Push
InitBuilderHistory ==
    /\ bcall = NoCall
    /\ nbcalls = 0
    /\ saved = <<>>

InitHistory ==
    /\ InitBuilderHistory
    /\ compass = "North"
    /\ hcalls = <<>>

\* LSystemBuilder::finish builds no renderer
InitNoRenderer ==
    /\ actions = <<>>
    /\ global_rotate = 0
    /\ istate = TurtleLSystemState_new
    /\ pc = "none"
    /\ pos = 0
    /\ tokens = <<>>
    /\ InitHistory

\* LSystemBuilder::finish on one of the systems
InitL == (\E sys \in LSystems : InitEngine(sys)) /\ InitBase /\ InitNoRenderer

\* BaseTurtle::new
InitT == InitEngine(Algae) /\ InitBase /\ InitNoRenderer

\* TurtleLSystemBuilder::finish on one of the systems
InitR ==
    /\ \E sys \in TurtleSystems :
          /\ InitEngine(sys)
          /\ actions = sys.actions
          /\ global_rotate = sys.global_rotate
          /\ tokens = TokensOf(sys.arena)
    /\ InitBase
    /\ InitHistory
    /\ istate = TurtleLSystemState_new
    /\ pc = "built"
    /\ pos = 0

-----------------------------------------------------------------------------
(* The rewriting engine's operations *)

StepCall == [op |-> "step", n |-> 1]
StepByCall(n) == [op |-> "step_by", n |-> n]

\* system.step()
Step ==
    /\ pc = "none"
    /\ Len(calls) < MaxLCalls
    /\ gen < MaxGen
    /\ state' = StepSeq(rules, state)
    /\ gen' = gen + 1
    /\ calls' = Append(calls, StepCall)
    /\ UNCHANGED <<arena, rules, axiom>>
    /\ UNCHANGED tvars
    /\ UNCHANGED rvars
    /\ UNCHANGED bvars
    /\ UNCHANGED hvars
    /\ UNCHANGED saved

\* system.step_by(n)
StepByN ==
    /\ pc = "none"
    /\ Len(calls) < MaxLCalls
    /\ \E n \in 0..MaxStepBy :
          /\ gen + n <= MaxGen
          /\ state' = StepBy(rules, state, n)
          /\ gen' = gen + n
          /\ calls' = Append(calls, StepByCall(n))
    /\ UNCHANGED <<arena, rules, axiom>>
    /\ UNCHANGED tvars
    /\ UNCHANGED rvars
    /\ UNCHANGED bvars
    /\ UNCHANGED hvars
    /\ UNCHANGED saved

NextL == Step \/ StepByN

SpecL == InitL /\ [][NextL]_vars

-----------------------------------------------------------------------------
(* Claims about the rewriting engine, checked under SpecL *)

IsAlgae == arena = AlgaeArena /\ axiom = AlgaeAxiom /\ rules = AlgaeRules

Rendered == Render(arena, state)

AlgaeAfterSeven == "ABAABABAABAABABAABABAABAABABAABAAB"

DocTestCalls == <<StepCall, StepCall, StepByCall(5)>>

\* C1: the doc-test of the Algae system: render() is "A" on the built system, "AB"
\* after one step(), "ABA" after a second step(), and the 34 symbols of
\* AlgaeAfterSeven after a further step_by(5).
C1_AlgaeDocTest ==
    IsAlgae =>
        /\ (calls = <<>> => Rendered = "A")
        /\ (calls = <<StepCall>> => Rendered = "AB")
        /\ (calls = <<StepCall, StepCall>> => Rendered = "ABA")
        /\ (calls = DocTestCalls => Rendered = AlgaeAfterSeven)

C1_Witness == IsAlgae /\ calls = DocTestCalls /\ Len(state) = 34

\* C2 as stated: generation 0 renders "A", generation 1 "AB", generation 2 "ABA" and
\* generation 5 the 34 symbols of AlgaeAfterSeven.
C2_AsStated ==
    IsAlgae =>
        /\ (gen = 0 => Rendered = "A")
        /\ (gen = 1 => Rendered = "AB")
        /\ (gen = 2 => Rendered = "ABA")
        /\ (gen = 5 => Rendered = AlgaeAfterSeven)

\* C2 amended: generation 0 renders "A", generation 1 "AB", generation 2 "ABA",
\* generation 5 "ABAABABAABAAB", and it is generation 7 that renders the 34 symbols
\* of AlgaeAfterSeven.
C2_AlgaeGenerations ==
    IsAlgae =>
        /\ (gen = 0 => Rendered = "A")
        /\ (gen = 1 => Rendered = "AB")
        /\ (gen = 2 => Rendered = "ABA")
        /\ (gen = 5 => Rendered = "ABAABABAABAAB")
        /\ (gen = 7 => Rendered = AlgaeAfterSeven)

C2_Witness == IsAlgae /\ gen = 7 /\ Len(calls) = 2

\* C3: step_by(n) followed by step_by(m) leaves the sequence a single step_by(n+m)
\* leaves, from every reachable state; step_by(0) changes nothing and step_by(1) is
\* step().
C3_StepComposition ==
    /\ \A n, m \in 0..MaxStepBy :
          gen + n + m <= MaxGen =>
              StepBy(rules, StepBy(rules, state, n), m) = StepBy(rules, state, n + m)
    /\ StepBy(rules, state, 0) = state
    /\ StepBy(rules, state, 1) = StepSeq(rules, state)

C3_Witness ==
    /\ calls = <<StepByCall(2), StepByCall(3)>>
    /\ Len(state) > Len(axiom)
    /\ state = StepBy(rules, axiom, 5)

\* the replacement the rule table gives handle h
Replacement(h) == IF h \in DOMAIN rules THEN rules[h] ELSE <<h>>

RECURSIVE OffsetOf(_, _)
\* the length of the replacements of the first i - 1 handles of s
OffsetOf(s, i) == IF i = 1 THEN 0 ELSE OffsetOf(s, i - 1) + Len(Replacement(s[i - 1]))

\* t is s with every handle replaced, at its place, by its replacement
IsGenerationOf(t, s) ==
    /\ Len(t) = OffsetOf(s, Len(s) + 1)
    /\ \A i \in 1..Len(s) :
          LET off == OffsetOf(s, i)
              rep == Replacement(s[i])
          IN  \A k \in 1..Len(rep) : t[off + k] = rep[k]

\* C4: step() replaces the state by the in-order concatenation of the replacements
\* of its handles, all rewritten from the same generation, and nothing else of the
\* system changes; the sequence reached is the one a second run from the same
\* axiom and rules with the same number of steps computes.
C4_ParallelRewrite ==
    /\ [][calls' = Append(calls, StepCall) =>
            /\ IsGenerationOf(state', state)
            /\ rules' = rules /\ arena' = arena]_vars
    /\ [](state = StepBy(rules, axiom, gen))

\* a step in which a handle is replaced by a rule whose text holds the handle of
\* another rule: rewriting one handle after the other would differ
C4_Witness ==
    /\ calls = <<StepCall>>
    /\ rules = ((0 :> <<1>>) @@ (1 :> <<0>>))
    /\ axiom = <<0, 1>>
    /\ state = <<1, 0>>

AllRuleLess(s) == \A i \in 1..Len(s) : s[i] \notin DOMAIN rules

Count(h, s) == Cardinality({i \in 1..Len(s) : s[i] = h})

\* C5: a state made only of tokens with no rule is a fixed point of step() and of
\* step_by(n), and no step lowers the number of occurrences of a token with no rule.
C5_TerminalFixedPoint ==
    /\ [](AllRuleLess(state) =>
            /\ StepSeq(rules, state) = state
            /\ \A n \in 0..MaxStepBy : StepBy(rules, state, n) = state)
    /\ [][/\ AllRuleLess(state) => state' = state
          /\ \A h \in Handles(arena) \ DOMAIN rules :
                Count(h, state') >= Count(h, state)]_vars

\* a system with a rule, stepped, whose state holds only tokens with no rule
C5_Witness ==
    /\ gen > 0
    /\ DOMAIN rules # {}
    /\ AllRuleLess(state)
    /\ state = axiom

-----------------------------------------------------------------------------
(* A BaseTurtle driven through its public methods *)

\* the arguments of the delta_move calls
DeltaMoves == { <<3, 0>>, <<0, -2>>, <<-2, 3>>, <<0, 0>> }

\* the arguments of the set_position calls
Positions == { <<-3, 2>>, <<4, -1>> }

Called(name, a, b) == [name |-> name, a |-> a, b |-> b]

\* turtle.delta_move(dx, dy)
DeltaMove ==
    /\ ncalls < MaxTCalls
    /\ \E d \in DeltaMoves :
          /\ bt' = delta_move(bt, d[1], d[2])
          /\ op' = Called("delta_move", d[1], d[2])
    /\ visited' = visited \cup {<<bt'.x, bt'.y>>}
    /\ ncalls' = ncalls + 1
    /\ UNCHANGED lvars
    /\ UNCHANGED rvars
    /\ UNCHANGED bvars
    /\ UNCHANGED hvars
    /\ UNCHANGED saved

\* turtle.set_position(x, y)
SetPosition ==
    /\ ncalls < MaxTCalls
    /\ \E p \in Positions :
          /\ bt' = set_position(bt, p[1], p[2])
          /\ op' = Called("set_position", p[1], p[2])
    /\ visited' = visited \cup {<<bt'.x, bt'.y>>}
    /\ ncalls' = ncalls + 1
    /\ UNCHANGED lvars
    /\ UNCHANGED rvars
    /\ UNCHANGED bvars
    /\ UNCHANGED hvars
    /\ UNCHANGED saved

\* turtle.pen_up()
PenUp ==
    /\ ncalls < MaxTCalls
    /\ bt' = pen_up(bt)
    /\ op' = Called("pen_up", 0, 0)
    /\ ncalls' = ncalls + 1
    /\ UNCHANGED visited
    /\ UNCHANGED lvars
    /\ UNCHANGED rvars
    /\ UNCHANGED bvars
    /\ UNCHANGED hvars
    /\ UNCHANGED saved

\* turtle.pen_down()
PenDown ==
    /\ ncalls < MaxTCalls
    /\ bt' = pen_down(bt)
    /\ op' = Called("pen_down", 0, 0)
    /\ ncalls' = ncalls + 1
    /\ UNCHANGED visited
    /\ UNCHANGED lvars
    /\ UNCHANGED rvars
    /\ UNCHANGED bvars
    /\ UNCHANGED hvars
    /\ UNCHANGED saved

NextT == DeltaMove \/ SetPosition \/ PenUp \/ PenDown

SpecT == InitT /\ [][NextT]_vars

-----------------------------------------------------------------------------
(* A TurtleLSystemBuilder system: step, then replay *)

\* the action of the token the replay is at
Current == actions[state[pos]]

Replaying == pc = "replay" /\ pos <= Len(state)

\* system.step() before the replay
RStep ==
    /\ pc = "built"
    /\ gen < MaxReplayGen
    /\ state' = StepSeq(rules, state)
    /\ gen' = gen + 1
    /\ calls' = Append(calls, StepCall)
    /\ UNCHANGED <<arena, rules, axiom>>
    /\ UNCHANGED tvars
    /\ UNCHANGED rvars
    /\ UNCHANGED bvars
    /\ UNCHANGED hvars
    /\ UNCHANGED saved

\* renderer.render(&system, ..): the replay starts at the first token, on the
\* interpreter state made by finish
RenderStart ==
    /\ pc = "built"
    /\ pc' = "replay"
    /\ pos' = 1
    /\ UNCHANGED <<actions, global_rotate, istate>>
    /\ UNCHANGED lvars
    /\ UNCHANGED tvars
    /\ UNCHANGED bvars
    /\ UNCHANGED hvars
    /\ UNCHANGED saved

\* what every callback leaves alone, and the move to the next token
Advance ==
    /\ pos' = pos + 1
    /\ UNCHANGED <<actions, global_rotate, pc>>
    /\ UNCHANGED lvars
    /\ UNCHANGED tvars
    /\ UNCHANGED bvars
    /\ UNCHANGED hvars

\* a slip: the token that raised the panic is skipped and the replay goes on
PanicSkipped ==
    /\ pos' = pos + 1
    /\ UNCHANGED <<actions, global_rotate, istate, pc>>
    /\ UNCHANGED lvars
    /\ UNCHANGED tvars
    /\ UNCHANGED bvars
    /\ UNCHANGED hvars
    /\ UNCHANGED saved

\* a panic ends the replay at the token that raised it
Panic ==
    /\ pc' = "panicked"
    /\ UNCHANGED <<actions, global_rotate, istate, pos>>
    /\ UNCHANGED lvars
    /\ UNCHANGED tvars
    /\ UNCHANGED bvars
    /\ UNCHANGED hvars
    /\ UNCHANGED saved

\* what a Push is compared with at its Pop: the turtle's position and heading, the
\* accumulated angle and the depth of the two stacks
Snapshot(s) ==
    [x |-> s.turtle.turtle.x, y |-> s.turtle.turtle.y, heading |-> s.turtle.heading,
     angle |-> s.angle, depth |-> Len(s.turtle.stack), angle_depth |-> Len(s.angle_stack)]

\* a slip: a callback is registered for Nothing, and it clears the angle
ReplayNothingClearingAngle ==
    /\ Replaying
    /\ Current.kind = "Nothing"
    /\ istate' = [istate EXCEPT !.angle = 0]
    /\ Advance
    /\ UNCHANGED saved

\* a token whose action is Nothing: finish registers no callback for it
ReplayNothing ==
    /\ Replaying
    /\ Current.kind = "Nothing"
    /\ istate' = istate
    /\ Advance
    /\ UNCHANGED saved

ReplayPush ==
    /\ Replaying
    /\ Current.kind = "Push"
    /\ istate' = OnPush(istate)
    /\ saved' = Append(saved, Snapshot(istate))
    /\ Advance

ReplayPop ==
    /\ Replaying
    /\ Current.kind = "Pop"
    /\ ~OnPopPanics(istate)
    /\ istate' = OnPop(istate)
    /\ saved' = SubSeq(saved, 1, Len(saved) - 1)
    /\ Advance

\* expect("Called pop on empty stack"), expect("Popped with empty stack")
ReplayPopPanic ==
    /\ Replaying
    /\ Current.kind = "Pop"
    /\ OnPopPanics(istate)
    /\ Panic

ReplayForward ==
    /\ Replaying
    /\ Current.kind = "Forward"
    /\ istate' = OnForward(istate, global_rotate, Current.distance)
    /\ Advance
    /\ UNCHANGED saved

ReplayRotate ==
    /\ Replaying
    /\ Current.kind = "Rotate"
    /\ istate' = OnRotate(istate, Current.angle)
    /\ Advance
    /\ UNCHANGED saved

ReplayStochasticRotate ==
    /\ Replaying
    /\ Current.kind = "StochasticRotate"
    /\ \E a \in Sample(Current.dist) : istate' = OnRotate(istate, a)
    /\ Advance
    /\ UNCHANGED saved

ReplayStochasticForward ==
    /\ Replaying
    /\ Current.kind = "StochasticForward"
    /\ \E d \in Sample(Current.dist) : istate' = OnForward(istate, global_rotate, d)
    /\ Advance
    /\ UNCHANGED saved

\* gen_range(lower, upper) panics when lower >= upper
ReplaySamplePanic ==
    /\ Replaying
    /\ Current.kind \in {"StochasticRotate", "StochasticForward"}
    /\ Sample(Current.dist) = {}
    /\ Panic

\* every token has been replayed
RenderDone ==
    /\ pc = "replay"
    /\ pos > Len(state)
    /\ pc' = "done"
    /\ UNCHANGED <<actions, global_rotate, istate, pos>>
    /\ UNCHANGED lvars
    /\ UNCHANGED tvars
    /\ UNCHANGED bvars
    /\ UNCHANGED hvars
    /\ UNCHANGED saved

NextR ==
    \/ RStep
    \/ RenderStart
    \/ ReplayNothing
    \/ ReplayPush
    \/ ReplayPop
    \/ ReplayPopPanic
    \/ ReplayForward
    \/ ReplayRotate
    \/ ReplayStochasticRotate
    \/ ReplayStochasticForward
    \/ ReplaySamplePanic
    \/ RenderDone

SpecR == InitR /\ [][NextR]_vars

-----------------------------------------------------------------------------
(* A TurtleLSystemBuilder driven through its public methods *)

\* the number of builder methods called in SpecB
MaxBCalls == 4

\* the names the token calls register; every one is a single word character
BNames == {"F", "X"}

\* the actions the token calls bind
BActions == {Forward(30), NothingAction, StochasticRotate(Uniform(50, 40))}

\* the texts of the axiom calls, as split_whitespace splits them: "", "F", "X F", "Q"
BAxioms == { <<>>, <<"F">>, <<"X", "F">>, <<"Q">> }

\* the texts of the rule calls, as the regex captures them: "X => F X", "Q => F",
\* "F => F Q", and "F", which the regex does not match
BRules ==
    { [matched |-> TRUE, lhs |-> "X", rhs |-> <<"F", "X">>],
      [matched |-> TRUE, lhs |-> "Q", rhs |-> <<"F">>],
      [matched |-> TRUE, lhs |-> "F", rhs |-> <<"F", "Q">>],
      [matched |-> FALSE, lhs |-> "", rhs |-> <<>>] }

\* the angles of the rotate calls
BRotations == {90}

\* the names an arena holds
Registered(names) == {names[i] : i \in 1..Len(names)}

\* a slip: the arena takes a name it already holds
ArenaRegisterFailsNever(names, name) == FALSE

\* LSystemBuilder::token: the arena refuses a name it already holds
ArenaRegisterFails(names, name) == name \in Registered(names)

\* LSystemBuilder::token: the name gets the next handle, Len(names)
ArenaRegister(names, name) == Append(names, name)

\* TurtleLSystemBuilder::get_token on every part: is each one in tokens
Known(parts) == \A i \in 1..Len(parts) : parts[i] \in DOMAIN tokens

\* the handles get_token gives the parts
HandlesOf(parts) == [i \in 1..Len(parts) |-> tokens[parts[i]]]

\* TurtleLSystemBuilder::new
InitB ==
    /\ arena = <<>>
    /\ rules = <<>>
    /\ axiom = <<>>
    /\ state = <<>>
    /\ gen = 0
    /\ calls = <<>>
    /\ InitBase
    /\ InitHistory
    /\ actions = <<>>
    /\ tokens = <<>>
    /\ global_rotate = 0
    /\ istate = TurtleLSystemState_new
    /\ pc = "building"
    /\ pos = 0

BuilderCall(name, input, outcome) == [name |-> name, input |-> input, outcome |-> outcome]

Building == pc = "building" /\ nbcalls < MaxBCalls

\* what no builder method touches, and the count of the calls
BuilderFrame ==
    /\ nbcalls' = nbcalls + 1
    /\ UNCHANGED <<gen, calls, istate, pos>>
    /\ UNCHANGED tvars
    /\ UNCHANGED saved
    /\ UNCHANGED hvars

\* expect and assert_ne! panic: the call does not return and the builder is lost
BuilderPanic ==
    /\ pc' = "aborted"
    /\ UNCHANGED <<arena, rules, axiom, state, tokens, actions, global_rotate>>
    /\ BuilderFrame

\* builder.rotate(angle)
BRotate ==
    /\ Building
    /\ global_rotate = 0
    /\ \E angle \in BRotations :
          /\ global_rotate' = angle
          /\ bcall' = BuilderCall("rotate", <<angle>>, "ok")
    /\ UNCHANGED <<arena, rules, axiom, state, tokens, actions, pc>>
    /\ BuilderFrame

\* builder.token(name, action) with a new name
BToken ==
    /\ Building
    /\ \E name \in BNames, action \in BActions :
          /\ ~ArenaRegisterFails(arena, name)
          /\ arena' = ArenaRegister(arena, name)
          /\ tokens' = (name :> Len(arena)) @@ tokens
          /\ actions' = (Len(arena) :> action) @@ actions
          /\ bcall' = BuilderCall("token", <<name>>, "ok")
    /\ UNCHANGED <<rules, axiom, state, global_rotate, pc>>
    /\ BuilderFrame

\* builder.token(name, action) with a name the arena refuses: neither insert is
\* reached
BTokenDuplicate ==
    /\ Building
    /\ \E name \in BNames :
          /\ ArenaRegisterFails(arena, name)
          /\ bcall' = BuilderCall("token", <<name>>, "error")
    /\ UNCHANGED <<arena, rules, axiom, state, tokens, actions, global_rotate, pc>>
    /\ BuilderFrame

\* whether builder.axiom(text) panics: expect("Invalid axiom"), assert_ne!(len, 0)
AxiomPanics(parts) == ~Known(parts) \/ Len(parts) = 0

\* builder.axiom(text)
BAxiom ==
    /\ Building
    /\ \E parts \in BAxioms :
          /\ ~AxiomPanics(parts)
          /\ axiom' = HandlesOf(parts)
          /\ bcall' = BuilderCall("axiom", parts, "ok")
    /\ UNCHANGED <<arena, rules, state, tokens, actions, global_rotate, pc>>
    /\ BuilderFrame

BAxiomPanic ==
    /\ Building
    /\ \E parts \in BAxioms :
          /\ AxiomPanics(parts)
          /\ bcall' = BuilderCall("axiom", parts, "panic")
    /\ BuilderPanic

\* whether builder.rule(text) panics: expect("Invalid rule"), expect("Invalid token")
\* on the left-hand side, expect("Invalid token") on a part of the right-hand side
RulePanics(r) == ~r.matched \/ r.lhs \notin DOMAIN tokens \/ ~Known(r.rhs)

\* builder.rule(text), at most once for a left-hand side
BRule ==
    /\ Building
    /\ \E r \in BRules :
          /\ ~RulePanics(r)
          /\ tokens[r.lhs] \notin DOMAIN rules
          /\ rules' = (tokens[r.lhs] :> HandlesOf(r.rhs)) @@ rules
          /\ bcall' = BuilderCall("rule", <<r.lhs>> \o r.rhs, "ok")
    /\ UNCHANGED <<arena, axiom, state, tokens, actions, global_rotate, pc>>
    /\ BuilderFrame

BRulePanic ==
    /\ Building
    /\ \E r \in BRules :
          /\ RulePanics(r)
          /\ bcall' = BuilderCall("rule", <<r.lhs>> \o r.rhs, "panic")
    /\ BuilderPanic

\* builder.finish() with an axiom: the engine starts at the axiom
BFinish ==
    /\ pc = "building"
    /\ axiom # <<>>
    /\ state' = axiom
    /\ pc' = "built"
    /\ bcall' = BuilderCall("finish", <<>>, "ok")
    /\ UNCHANGED <<arena, rules, axiom, tokens, actions, global_rotate>>
    /\ BuilderFrame

\* builder.finish() with no axiom: LSystemBuilder::finish refuses to build
BFinishNoAxiom ==
    /\ pc = "building"
    /\ axiom = <<>>
    /\ pc' = "failed"
    /\ bcall' = BuilderCall("finish", <<>>, "error")
    /\ UNCHANGED <<arena, rules, axiom, state, tokens, actions, global_rotate>>
    /\ BuilderFrame

NextB ==
    \/ BRotate
    \/ BToken
    \/ BTokenDuplicate
    \/ BAxiom
    \/ BAxiomPanic
    \/ BRule
    \/ BRulePanic
    \/ BFinish
    \/ BFinishNoAxiom

SpecB == InitB /\ [][NextB]_vars

-----------------------------------------------------------------------------
(* A compass Heading driven through its methods *)

\* the number of Heading methods called in SpecH
MaxHCalls == 4

\* enum Heading
Headings == {"North", "South", "East", "West"}

\* a slip: East turns left to South
Heading_leftSlip(h) ==
    CASE h = "North" -> "West"
      [] h = "West" -> "South"
      [] h = "South" -> "East"
      [] h = "East" -> "South"

\* Heading::left
Heading_left(h) ==
    CASE h = "North" -> "West"
      [] h = "West" -> "South"
      [] h = "South" -> "East"
      [] h = "East" -> "North"

\* Heading::right: self.left().left().left()
Heading_right(h) == Heading_left(Heading_left(Heading_left(h)))

\* Heading::dx
Heading_dx(h) ==
    CASE h = "West" -> -1
      [] h = "East" -> 1
      [] OTHER -> 0

\* Heading::dy
Heading_dy(h) ==
    CASE h = "North" -> 1
      [] h = "South" -> -1
      [] OTHER -> 0

\* any Heading, no method called yet
InitH ==
    /\ InitEngine(Algae)
    /\ InitBase
    /\ InitBuilderHistory
    /\ actions = <<>>
    /\ tokens = <<>>
    /\ global_rotate = 0
    /\ istate = TurtleLSystemState_new
    /\ pc = "none"
    /\ pos = 0
    /\ compass \in Headings
    /\ hcalls = <<>>

\* a method call: the Heading it was called on, the Heading it returned (the same
\* one for dx and dy, which return a number: ret)
HCalled(name, before, after, ret) ==
    [name |-> name, before |-> before, after |-> after, ret |-> ret]

\* what no Heading method touches
HeadingFrame ==
    /\ UNCHANGED lvars
    /\ UNCHANGED tvars
    /\ UNCHANGED rvars
    /\ UNCHANGED bvars
    /\ UNCHANGED saved

\* h = h.left()
HLeft ==
    /\ Len(hcalls) < MaxHCalls
    /\ compass' = Heading_left(compass)
    /\ hcalls' = Append(hcalls, HCalled("left", compass, compass', 0))
    /\ HeadingFrame

\* h = h.right()
HRight ==
    /\ Len(hcalls) < MaxHCalls
    /\ compass' = Heading_right(compass)
    /\ hcalls' = Append(hcalls, HCalled("right", compass, compass', 0))
    /\ HeadingFrame

\* h.dx()
HDx ==
    /\ Len(hcalls) < MaxHCalls
    /\ compass' = compass
    /\ hcalls' = Append(hcalls, HCalled("dx", compass, compass, Heading_dx(compass)))
    /\ HeadingFrame

\* h.dy()
HDy ==
    /\ Len(hcalls) < MaxHCalls
    /\ compass' = compass
    /\ hcalls' = Append(hcalls, HCalled("dy", compass, compass, Heading_dy(compass)))
    /\ HeadingFrame

NextH == HLeft \/ HRight \/ HDx \/ HDy

SpecH == InitH /\ [][NextH]_vars

-----------------------------------------------------------------------------
(* Claims about BaseTurtle, checked under SpecT *)

\* the endpoints of the recorded lines
Endpoints(t) ==
    {<<t.lines[i][1], t.lines[i][2]>> : i \in 1..Len(t.lines)} \cup
    {<<t.lines[i][3], t.lines[i][4]>> : i \in 1..Len(t.lines)}

\* C6: bounds() returns (width, height, min_x, min_y) with every endpoint (x, y) of
\* every recorded line inside: 0 <= x - min_x <= width and 0 <= y - min_y <= height.
C6_EndpointsInBounds ==
    LET b == bounds(bt)
    IN  \A e \in Endpoints(bt) :
            /\ 0 <= e[1] - b[3] /\ e[1] - b[3] <= b[1]
            /\ 0 <= e[2] - b[4] /\ e[2] - b[4] <= b[2]

\* lines on both sides of the origin in x and in y, after a jump
C6_Witness ==
    /\ Len(bt.lines) >= 2
    /\ \E e \in Endpoints(bt) : e[1] < 0
    /\ \E e \in Endpoints(bt) : e[1] > 0
    /\ \E e \in Endpoints(bt) : e[2] < 0
    /\ op.name = "delta_move"
    /\ <<-3, 2>> \in visited

SetMin(S) == CHOOSE m \in S : \A s \in S : m <= s
SetMax(S) == CHOOSE m \in S : \A s \in S : m >= s

\* C7: min_x, max_x, min_y and max_y are the least and greatest x and y over all
\* the positions the turtle has occupied, (0,0) included, pen down or up; hence
\* min_x <= 0 <= max_x, min_y <= 0 <= max_y, and bounds() returns the width
\* max_x - min_x and the height max_y - min_y.
C7_BoundsAreExtremes ==
    LET xs == {p[1] : p \in visited}
        ys == {p[2] : p \in visited}
        b == bounds(bt)
    IN  /\ <<0, 0>> \in visited
        /\ bt.min_x = SetMin(xs) /\ bt.max_x = SetMax(xs)
        /\ bt.min_y = SetMin(ys) /\ bt.max_y = SetMax(ys)
        /\ bt.min_x <= 0 /\ 0 <= bt.max_x
        /\ bt.min_y <= 0 /\ 0 <= bt.max_y
        /\ b[1] = bt.max_x - bt.min_x
        /\ b[2] = bt.max_y - bt.min_y

\* the least x was reached with the pen up and is the endpoint of no line
C7_Witness ==
    /\ ~bt.pen_down
    /\ bt.min_x < 0
    /\ bt.max_x > 0
    /\ \A e \in Endpoints(bt) : e[1] > bt.min_x
    /\ bt.lines # <<>>

\* C8: delta_move(dx, dy) moves the turtle from (x, y) to (x+dx, y+dy) and appends
\* the one segment (x, y, x+dx, y+dy) when the pen is down, nothing when it is up;
\* pen_up(), pen_down() and set_position() leave the recorded lines as they are, and
\* pen_up() and pen_down() leave the position and the bounds as they are.
C8_MoveAndPenFrame ==
    [][ncalls' = ncalls + 1 =>
        /\ op'.name = "delta_move" =>
              /\ bt'.x = bt.x + op'.a
              /\ bt'.y = bt.y + op'.b
              /\ bt'.pen_down = bt.pen_down
              /\ bt'.lines =
                    IF bt.pen_down
                    THEN bt.lines \o << <<bt.x, bt.y, bt.x + op'.a, bt.y + op'.b>> >>
                    ELSE bt.lines
        /\ op'.name \in {"pen_up", "pen_down", "set_position"} =>
              bt'.lines = bt.lines
        /\ op'.name \in {"pen_up", "pen_down"} =>
              /\ bt'.x = bt.x /\ bt'.y = bt.y
              /\ bounds(bt') = bounds(bt)
              /\ <<bt'.min_x, bt'.max_x, bt'.min_y, bt'.max_y>> =
                    <<bt.min_x, bt.max_x, bt.min_y, bt.max_y>>
        /\ op'.name = "pen_up" => ~bt'.pen_down
        /\ op'.name = "pen_down" => bt'.pen_down
    ]_vars

\* a delta_move made with the pen up, after a line was recorded
C8_Witness ==
    /\ op.name = "delta_move"
    /\ op.a # 0
    /\ ~bt.pen_down
    /\ Len(bt.lines) = 1
    /\ ncalls = 3

-----------------------------------------------------------------------------
(* Claims about the replay, checked under SpecR *)

IsKoch ==
    /\ arena = KochArena /\ actions = KochActions /\ rules = KochRules
    /\ axiom = <<0>> /\ global_rotate = 0

Lines == istate.turtle.turtle.lines

\* the displacement of a recorded line
Displacement(l) == <<l[3] - l[1], l[4] - l[2]>>

\* C9: the Koch curve after one step(), replayed: exactly 5 segments, each of length
\* 30 along an axis, each starting where the one before ended, in the directions of
\* the accumulated angles 0, 90, 0, -90, 0.
C9_KochFirstGeneration ==
    (IsKoch /\ gen = 1 /\ pc = "done") =>
        /\ Len(Lines) = 5
        /\ \A i \in 1..Len(Lines) :
              Displacement(Lines[i]) \in {<<30, 0>>, <<-30, 0>>, <<0, 30>>, <<0, -30>>}
        /\ Lines[1][1] = 0 /\ Lines[1][2] = 0
        /\ \A i \in 1..(Len(Lines) - 1) :
              Lines[i + 1][1] = Lines[i][3] /\ Lines[i + 1][2] = Lines[i][4]
        /\ [i \in 1..Len(Lines) |-> Displacement(Lines[i])] =
              << <<30, 0>>, <<0, 30>>, <<30, 0>>, <<0, -30>>, <<30, 0>> >>
        /\ istate.angle = 0

C9_Witness ==
    /\ IsKoch /\ gen = 1 /\ pc = "done"
    /\ state = <<0, 1, 0, 2, 0, 2, 0, 1, 0>>
    /\ Len(Lines) = 5

\* the kinds of the actions of the first k tokens of the state
CountKind(kind, k) ==
    Cardinality({i \in 1..k : actions[state[i]].kind = kind})

\* every prefix of the first k tokens holds at least as many Push as Pop
BalancedUpTo(k) == \A j \in 1..k : CountKind("Push", j) >= CountKind("Pop", j)

\* the replay ended in one of the two expects of the Pop callback
StackUnderflow == pc = "panicked" /\ Current.kind = "Pop"

\* C10: replaying, from a fresh interpreter state, a sequence every prefix of which
\* holds at least as many Push as Pop tokens never ends in the stack underflow,
\* whatever the other tokens are; an underflow happens only at a Pop that makes
\* its prefix unbalanced.
C10_BalancedNeverUnderflows ==
    /\ BalancedUpTo(Len(state)) => ~StackUnderflow
    /\ StackUnderflow => ~BalancedUpTo(pos)
    /\ (Replaying /\ Current.kind = "Pop" /\ BalancedUpTo(pos)) => ~OnPopPanics(istate)

\* a replay that ran to its end through nested Push and Pop, with lines drawn
C10_Witness ==
    /\ pc = "done"
    /\ BalancedUpTo(Len(state))
    /\ CountKind("Pop", Len(state)) >= 3
    /\ \E k \in 1..Len(state) : CountKind("Push", k) >= CountKind("Pop", k) + 2
    /\ Len(Lines) >= 2

-----------------------------------------------------------------------------
(* Claims about the builder, checked under SpecB *)

\* a builder method was called in this step
BuilderCalled == nbcalls' = nbcalls + 1

ConstructionError ==
    \/ bcall.name = "axiom" /\ (bcall.input = <<>> \/ ~Known(bcall.input))
    \/ bcall.name = "rule" /\ bcall.input # <<"">> /\ ~Known(bcall.input)

\* C12 as stated: every construction error (an empty axiom, an axiom naming an
\* unknown token, a rule whose left- or right-hand side names an unknown token) is
\* returned to the caller as a typed error result, the process is not aborted, and
\* no usable engine is produced.
C12_AsStated ==
    ConstructionError =>
        /\ bcall.outcome = "error"
        /\ pc # "aborted"
        /\ pc # "built"

\* the distributions bound to the tokens of the builder
Distributions ==
    {actions[h].dist : h \in {k \in DOMAIN actions :
        actions[k].kind \in {"StochasticRotate", "StochasticForward"}}}

\* C13 as stated: a uniform range with lower >= upper is rejected when the
\* distribution is constructed, before any sample is drawn and before any replay
\* starts, so no Uniform value with lower >= upper exists in a built system.
C13_AsStated ==
    pc = "built" =>
        \A dist \in Distributions : dist.kind = "Uniform" => dist.lower < dist.upper

-----------------------------------------------------------------------------
(* Claims about the interpreter's stacks and frame, checked under SpecR *)

\* the depth of the turtle's save stack and of the angle stack
StackDepth == Len(istate.turtle.stack)
AngleDepth == Len(istate.angle_stack)

\* a token is replayed in this step, and its action is of this kind
Replays(kind) == Replaying /\ pos' = pos + 1 /\ Current.kind = kind

\* C14: in every reachable state of a replay the turtle's save stack and the angle
\* stack have the same length; replaying a Push grows both by one, replaying a Pop
\* shrinks both by one, and no other step changes the length of either.
C14_StacksInLockstep ==
    /\ [](StackDepth = AngleDepth)
    /\ [][LET d == IF Replays("Push") THEN 1 ELSE IF Replays("Pop") THEN -1 ELSE 0
          IN  /\ StackDepth' = StackDepth + d
              /\ AngleDepth' = AngleDepth + d]_vars

\* two Pushes and one Pop have been replayed
C14_Witness ==
    /\ pc = "done"
    /\ StackDepth = 1
    /\ AngleDepth = 1
    /\ CountKind("Push", Len(state)) = 2
    /\ CountKind("Pop", Len(state)) = 1

\* C15: a Pop replayed when either stack is empty is fatal: the replay stops at
\* that token, which is the first Pop with no Push before it left to match; no
\* later token is replayed, the interpreter state is left as it was, and the replay
\* never completes, so no drawing is handed out.
C15_UnderflowIsFatal ==
    /\ [][(Replaying /\ Current.kind = "Pop" /\ (StackDepth = 0 \/ AngleDepth = 0)) =>
            /\ pc' = "panicked"
            /\ pos' = pos
            /\ istate' = istate]_vars
    /\ [][pc # "panicked"]_vars
    /\ [](StackUnderflow => BalancedUpTo(pos - 1) /\ ~BalancedUpTo(pos))
    /\ [](pc = "done" => BalancedUpTo(Len(state)))

\* a Pop with nothing to match, after a Forward was drawn and before a later token
C15_Witness ==
    /\ StackUnderflow
    /\ pos = 2
    /\ Len(state) = 3
    /\ Len(Lines) = 1

\* C16 as stated: replaying Rotate(d) sets the accumulated angle to (angle + d) mod
\* 360, the residue in 0..359, and changes nothing else of the interpreter state:
\* the turtle (position, lines, bounds, save stack) and the angle stack.
C16_AsStated ==
    [][Replays("Rotate") =>
          /\ istate'.angle = (istate.angle + Current.angle) % 360
          /\ istate'.turtle = istate.turtle
          /\ istate'.angle_stack = istate.angle_stack]_vars

\* C16 amended: replaying Rotate(d) sets the accumulated angle to the remainder of
\* angle + d on division by 360 that has the sign of angle + d: a value strictly
\* between -360 and 360, congruent to angle + d modulo 360, never positive when
\* angle + d is negative and never negative when it is positive; it changes nothing
\* else of the interpreter state.
C16_RotateRemainder ==
    [][Replays("Rotate") =>
          LET sum == istate.angle + Current.angle
          IN  /\ (istate'.angle - sum) % 360 = 0
              /\ istate'.angle > -360 /\ istate'.angle < 360
              /\ sum >= 0 => istate'.angle >= 0
              /\ sum <= 0 => istate'.angle <= 0
              /\ istate'.turtle = istate.turtle
              /\ istate'.angle_stack = istate.angle_stack]_vars

\* the angle after L L F R R R R: 200, 40, -160, 0, -200 and then -40, with a line
\* drawn and the bounds set before the last turns
C16_Witness ==
    /\ arena = SpinArena
    /\ pos = 8
    /\ istate.angle = -40
    /\ Len(Lines) = 1

\* C17: Push and Pop save and restore last-in, first-out: when a Pop is replayed,
\* the turtle's position, the turtle's heading and the accumulated angle become
\* what they were when the Push it matches was replayed, whatever balanced run of
\* tokens lies between the two, and both stacks are back at the depth they had
\* before that Push.
C17_PushPopRestores ==
    [][Replays("Pop") =>
          LET at == saved[Len(saved)]
          IN  /\ istate'.turtle.turtle.x = at.x
              /\ istate'.turtle.turtle.y = at.y
              /\ istate'.turtle.heading = at.heading
              /\ istate'.angle = at.angle
              /\ StackDepth' = at.depth
              /\ AngleDepth' = at.angle_depth]_vars

\* F [ + F [ - F ] F ] replayed: the outer Pop has brought the turtle back to
\* (10, 0), heading 0 and angle 0, from (24, 14), heading 45 and angle 45
C17_Witness ==
    /\ arena = NestArena
    /\ pos = 11
    /\ istate.turtle.turtle.x = 10
    /\ istate.turtle.turtle.y = 0
    /\ istate.turtle.heading = 0
    /\ istate.angle = 0
    /\ StackDepth = 0
    /\ Len(Lines) = 4
    /\ Lines[4] = <<17, 7, 24, 14>>

\* C18: replaying a token with no callback, which is what a token bound to Nothing
\* is, leaves the whole interpreter state as it was (angle, angle stack, turtle
\* position, heading, save stack, lines, bounds, pen flags) and the replay goes on
\* with the next token.
C18_NothingIsSkipped ==
    [][(Replaying /\ Current.kind = "Nothing") =>
          /\ istate' = istate
          /\ pos' = pos + 1
          /\ pc' = "replay"
          /\ state' = state]_vars

\* a Nothing token replayed between a turn and a Forward, on an interpreter state
\* that is no longer the fresh one: the Forward after it draws along the turned angle
C18_Witness ==
    /\ pc = "done"
    /\ Len(state) = 3
    /\ actions[state[1]].kind = "Rotate"
    /\ actions[state[2]].kind = "Nothing"
    /\ actions[state[3]].kind = "Forward"
    /\ istate.angle = 90
    /\ Lines = << <<0, 0, 0, 30>> >>

\* the BaseTurtle of the interpreter
Base == istate.turtle.turtle

\* C19: replaying a Pop never adds a line and never changes the bounds: the
\* recorded lines, the four extremes and the reported width and height are the
\* same after it as before, and the position it restores lies within them.
C19_PopDrawsNothing ==
    [][Replays("Pop") =>
          /\ Base'.lines = Base.lines
          /\ Base'.min_x = Base.min_x /\ Base'.max_x = Base.max_x
          /\ Base'.min_y = Base.min_y /\ Base'.max_y = Base.max_y
          /\ bounds(Base') = bounds(Base)
          /\ Base'.min_x <= Base'.x /\ Base'.x <= Base'.max_x
          /\ Base'.min_y <= Base'.y /\ Base'.y <= Base'.max_y]_vars

\* F [ + F [ - F ] replayed: the inner Pop has moved the turtle from (27, 7), the
\* rightmost place reached, back to (17, 7); three lines are recorded
C19_Witness ==
    /\ arena = NestArena
    /\ pos = 9
    /\ Base.x = 17
    /\ Base.y = 7
    /\ Base.max_x = 27
    /\ Len(Base.lines) = 3

\* the Forward and StochasticForward tokens among the first k of the state
Forwards(k) == CountKind("Forward", k) + CountKind("StochasticForward", k)

\* C20 as stated: during a replay neither pen flag is ever lifted, so every Forward
\* or StochasticForward invoked by the replay appends exactly one line, from the
\* position before it to the position after it (a line of zero length when the
\* displacement truncates to (0, 0)), and when the replay completes the number of
\* lines is the number of Forward and StochasticForward tokens of the sequence.
C20_AsStated ==
    /\ [](Base.pen_down /\ istate.turtle.pen_down)
    /\ [][(Replaying /\ Current.kind \in {"Forward", "StochasticForward"}) =>
            Base'.lines = Append(Base.lines, <<Base.x, Base.y, Base'.x, Base'.y>>)]_vars
    /\ [](pc = "done" => Len(Base.lines) = Forwards(Len(state)))

\* what holds of every Forward and StochasticForward whose callback returns: the
\* pen flags stay down, the callback appends exactly one line, no other step
\* changes the lines, and a completed replay holds one line per such token
ReturningForwardsDrawOneLine ==
    /\ [](Base.pen_down /\ istate.turtle.pen_down)
    /\ [][IF Replays("Forward") \/ Replays("StochasticForward")
          THEN Base'.lines = Append(Base.lines, <<Base.x, Base.y, Base'.x, Base'.y>>)
          ELSE Base'.lines = Base.lines]_vars
    /\ [](pc = "done" => Len(Base.lines) = Forwards(Len(state)))

\* a completed replay whose second line has zero length: a StochasticForward of
\* distance 1 along 44 or 45 degrees, after a Forward
ZeroLengthLine ==
    /\ pc = "done"
    /\ Len(state) = 3
    /\ Forwards(3) = 2
    /\ Len(Base.lines) = 2
    /\ Base.lines[2] = <<30, 0, 30, 0>>

-----------------------------------------------------------------------------
(* Claims about Heading, checked under SpecH *)

\* the calls i .. i + n - 1 were all made, and all to the method name
RunOf(name, i, n) ==
    /\ i + n - 1 <= Len(hcalls)
    /\ \A k \in i..(i + n - 1) : hcalls[k].name = name

\* C21: for every Heading h, h.left().right() and h.right().left() are h, four
\* successive left() calls return h and so do four successive right() calls, and
\* exactly one of h.dx(), h.dy() is not zero, its value being 1 or -1. Stated of
\* the Heading held and of every run of calls made so far.
C21_HeadingAlgebra ==
    /\ compass \in Headings
    /\ Heading_right(Heading_left(compass)) = compass
    /\ Heading_left(Heading_right(compass)) = compass
    /\ Heading_left(Heading_left(Heading_left(Heading_left(compass)))) = compass
    /\ Heading_right(Heading_right(Heading_right(Heading_right(compass)))) = compass
    /\ (Heading_dx(compass) # 0) # (Heading_dy(compass) # 0)
    /\ Heading_dx(compass) + Heading_dy(compass) \in {1, -1}
    /\ \A i \in 1..Len(hcalls) :
          /\ (RunOf("left", i, 1) /\ RunOf("right", i + 1, 1)) =>
                hcalls[i + 1].after = hcalls[i].before
          /\ (RunOf("right", i, 1) /\ RunOf("left", i + 1, 1)) =>
                hcalls[i + 1].after = hcalls[i].before
          /\ RunOf("left", i, 4) => hcalls[i + 3].after = hcalls[i].before
          /\ RunOf("right", i, 4) => hcalls[i + 3].after = hcalls[i].before
          /\ (RunOf("dx", i, 1) /\ RunOf("dy", i + 1, 1)) =>
                /\ (hcalls[i].ret # 0) # (hcalls[i + 1].ret # 0)
                /\ hcalls[i].ret + hcalls[i + 1].ret \in {1, -1}

\* four right() calls made on East, which is East again after South, West, North
C21_Witness ==
    /\ RunOf("right", 1, 4)
    /\ hcalls[1].before = "East"
    /\ hcalls[1].after = "South"
    /\ hcalls[2].after = "West"
    /\ hcalls[3].after = "North"
    /\ compass = "East"

=============================================================================
